---- MODULE Spec2Model ----
(***************************************************************************)
(* Model of script.pyw: the Pinterest downloader.                          *)
(*                                                                         *)
(* PinterestDownloaderGUI (the Qt main thread) owns the download button    *)
(* and the modal message boxes; DownloadThread.run is the background       *)
(* pipeline: page fetch, four extraction strategies, de-duplication, and   *)
(* the per-item download loop with filename derivation and collision       *)
(* probing.                                                                *)
(*                                                                         *)
(* Strings are sequences of one-character strings.  The scheme and         *)
(* authority of a URL ("https://host") is a single element drawn from      *)
(* Origins: nothing in the program looks inside it except                  *)
(* is_valid_pinterest_url, which is modelled by PinterestOrigins.          *)
(***************************************************************************)
EXTENDS Integers, Sequences, FiniteSets, TLC

(***************************************************************************)
(* Bounds of the model.                                                    *)
(***************************************************************************)
\* elements (img / video / div / script) in one fetched page
MaxElems == 2
\* DownloadThread objects started over the life of the window
MaxStarts == 2
\* files photo.jpg, photo_1.jpg, ... that may already be in the save folder
MaxPre == 1

(***************************************************************************)
(* Characters and string helpers                                           *)
(***************************************************************************)
PinOrigin == "https://www.pinterest.com"
CdnOrigin == "https://i.pinimg.com"
OtherOrigin == "https://example.org"
Origins == {PinOrigin, CdnOrigin, OtherOrigin}

\* origins whose netloc ends with 'pinterest.com'
PinterestOrigins == {PinOrigin}

\* str.lower() on the characters of the model's alphabet
Lower(c) ==
    CASE c = "M" -> "m"
      [] c = "P" -> "p"
      [] OTHER -> c

LowerStr(s) == [k \in 1..Len(s) |-> Lower(s[k])]

\* needle in hay  (Python's substring test on str)
Contains(hay, needle) ==
    \E k \in 0..(Len(hay) - Len(needle)) :
        \A j \in 1..Len(needle) : hay[k + j] = needle[j]

\* s.find(c): index of the first element of s that is in cs, 0 when none
FindFirst(s, cs) ==
    IF \E k \in 1..Len(s) : s[k] \in cs
    THEN CHOOSE k \in 1..Len(s) : s[k] \in cs /\ \A j \in 1..(k - 1) : s[j] \notin cs
    ELSE 0

\* s.rfind(c): index of the last element of s equal to c, 0 when none
FindLast(s, c) ==
    IF \E k \in 1..Len(s) : s[k] = c
    THEN CHOOSE k \in 1..Len(s) : s[k] = c /\ \A j \in (k + 1)..Len(s) : s[j] # c
    ELSE 0

\* s[:k-1] where k is the first occurrence of a character of cs (all of s when none)
Before(s, cs) ==
    IF FindFirst(s, cs) = 0 THEN s ELSE SubSeq(s, 1, FindFirst(s, cs) - 1)

\* str(n) for n >= 0, in decimal
Digit(d) == CASE d = 0 -> "0" [] d = 1 -> "1" [] d = 2 -> "2" [] d = 3 -> "3"
              [] d = 4 -> "4" [] d = 5 -> "5" [] d = 6 -> "6" [] d = 7 -> "7"
              [] d = 8 -> "8" [] d = 9 -> "9"

RECURSIVE Str(_)
Str(n) == IF n < 10 THEN <<Digit(n)>> ELSE Str(n \div 10) \o <<Digit(n % 10)>>

\* str.strip()
RECURSIVE Strip(_)
Strip(s) ==
    IF s = <<>> THEN s
    ELSE IF Head(s) = " " THEN Strip(Tail(s))
    ELSE IF s[Len(s)] = " " THEN Strip(SubSeq(s, 1, Len(s) - 1))
    ELSE s

(***************************************************************************)
(* Extension tables of the program                                         *)
(***************************************************************************)
JPG == <<".", "j", "p", "g">>
JPEG == <<".", "j", "p", "e", "g">>
PNG == <<".", "p", "n", "g">>
WEBP == <<".", "w", "e", "b", "p">>
GIF == <<".", "g", "i", "f">>
MP4 == <<".", "m", "p", "4">>
WEBM == <<".", "w", "e", "b", "m">>
MOV == <<".", "m", "o", "v">>

ImageExts == {JPG, JPEG, PNG, WEBP, GIF}
VideoExts == {MP4, WEBM, MOV}

KindStr(kind) == IF kind = "video" THEN <<"v", "i", "d", "e", "o">>
                 ELSE <<"i", "m", "a", "g", "e">>

\* any(ext in url.lower() for ext in exts)
HasExt(url, exts) == \E e \in exts : Contains(LowerStr(url), e)

(***************************************************************************)
(* urllib.parse and os.path                                                *)
(***************************************************************************)
IsAbsolute(url) == url # <<>> /\ url[1] \in Origins

\* the part of a URL after its scheme and authority
AfterOrigin(url) == IF IsAbsolute(url) THEN Tail(url) ELSE url

\* urlparse(url).path: up to the query or fragment, the last segment's
\* ';params' removed
UrlPath(url) ==
    LET p == Before(AfterOrigin(url), {"?", "#"})
        slash == FindLast(p, "/")
        last == SubSeq(p, slash + 1, Len(p))
    IN  SubSeq(p, 1, slash) \o Before(last, {";"})

\* os.path.basename(p)
Basename(p) == SubSeq(p, FindLast(p, "/") + 1, Len(p))

\* os.path.splitext(name): the extension starts at the last dot, unless that
\* dot is one of the name's leading dots
SplitExt(name) ==
    LET dot == FindLast(name, ".")
        lead == \A k \in 1..(dot - 1) : name[k] = "."
    IN  IF dot = 0 \/ lead
        THEN <<name, <<>>>>
        ELSE <<SubSeq(name, 1, dot - 1), SubSeq(name, dot, Len(name))>>

\* urljoin(base, ref) for an absolute base: a reference with its own scheme
\* is returned as it is, a path starting with '/' replaces the base's path,
\* any other reference replaces the base path's last segment
UrlJoin(base, ref) ==
    IF ref = <<>> THEN base
    ELSE IF IsAbsolute(ref) THEN ref
    ELSE IF ref[1] = "/" THEN <<base[1]>> \o ref
    ELSE IF ref[1] \in {"?", "#"} THEN Before(base, {ref[1], "#"}) \o ref
    ELSE LET p == Before(AfterOrigin(base), {"?", "#"})
         IN  <<base[1]>> \o (IF FindLast(p, "/") = 0 THEN <<"/">>
                              ELSE SubSeq(p, 1, FindLast(p, "/"))) \o ref

\* url.split('?')[0]
CleanUrl(url) == Before(url, {"?"})

(***************************************************************************)
(* Inputs: what the user types, what the server returns                    *)
(***************************************************************************)
PinUrl == <<PinOrigin, "/", "p", "i", "n", "/", "1", "/">>

\* texts of url_input at the moment DOWNLOAD is clicked
UrlInputs ==
    { <<>>,
      <<" ">>,
      <<OtherOrigin, "/", "p", "i", "n", "/", "1", "/">>,
      <<PinOrigin, "/", "b">>,
      <<" ">> \o PinUrl }

\* HTTP status codes of the page response
StatusCodes == {200, 404}

\* An element of the parsed page.  src is the attribute the strategy reads
\* first (src, data-video-src, or the contentUrl of the parsed JSON), alt its
\* fallback (data-src of an img, src of a video's first <source>); <<>> is an
\* absent attribute, and for a script also JSON that does not parse or is no
\* object with a contentUrl.  div stands for a div with
\* data-test-id="video-component"; other divs are never looked at.
Elem(tag, src, alt) == [tag |-> tag, src |-> src, alt |-> alt]

\* the elements a page is made of, in document order
Catalogue ==
    << Elem("img", <<CdnOrigin, "/", "a">> \o JPG \o <<"?", "x">>, <<>>),
       Elem("img", <<>>, <<"/", "a">> \o JPG),
       Elem("video", <<>>, <<"v", ".", "M", "P", "4">>),
       Elem("div", <<CdnOrigin, "/", "a">> \o JPG, <<>>),
       Elem("div", <<CdnOrigin, "/", "d", "/">>, <<>>),
       Elem("script", <<"p", ".", "x">>, <<>>),
       Elem("script", <<>>, <<>>) >>

\* the elements of Catalogue at the indices in S, in document order
RECURSIVE Pick(_, _)
Pick(S, k) ==
    IF k > Len(Catalogue) THEN <<>>
    ELSE (IF k \in S THEN <<Catalogue[k]>> ELSE <<>>) \o Pick(S, k + 1)

\* documents the server may return: at most MaxElems elements of Catalogue
Pages ==
    {Pick(S, 1) : S \in {T \in SUBSET (1..Len(Catalogue)) : Cardinality(T) <= MaxElems}}

(***************************************************************************)
(* PinterestDownloaderGUI.is_valid_pinterest_url                           *)
(***************************************************************************)
is_valid_pinterest_url(u) ==
    /\ u # <<>>
    /\ u[1] \in PinterestOrigins
    /\ Contains(u, <<"/", "p", "i", "n", "/">>)

(***************************************************************************)
(* DownloadThread.run: extraction                                          *)
(***************************************************************************)
\* a or b  on strings
Or(a, b) == IF a # <<>> THEN a ELSE b

\* 1. image tags
ImgCandidate(e, base) ==
    LET img_url == Or(e.src, e.alt)
    IN  IF img_url # <<>> /\ HasExt(img_url, ImageExts)
        THEN << <<"image", UrlJoin(base, img_url)>> >>
        ELSE <<>>

\* 2. video tags
VideoCandidate(e, base) ==
    LET video_url == Or(e.src, e.alt)
    IN  IF video_url # <<>> /\ HasExt(video_url, VideoExts)
        THEN << <<"video", UrlJoin(base, video_url)>> >>
        ELSE <<>>

\* 3. video containers
ContainerCandidate(e, base) ==
    IF e.src # <<>> THEN << <<"video", UrlJoin(base, e.src)>> >> ELSE <<>>

\* 4. JSON-LD contentUrl
JsonCandidate(e, base) ==
    IF e.src # <<>>
    THEN << <<IF HasExt(e.src, VideoExts) THEN "video" ELSE "image", e.src>> >>
    ELSE <<>>

Candidate(tag, e, base) ==
    CASE tag = "img" -> ImgCandidate(e, base)
      [] tag = "video" -> VideoCandidate(e, base)
      [] tag = "div" -> ContainerCandidate(e, base)
      [] tag = "script" -> JsonCandidate(e, base)

\* one strategy: soup.find_all(tag), in document order
RECURSIVE Strategy(_, _, _)
Strategy(tag, page, base) ==
    IF page = <<>> THEN <<>>
    ELSE (IF Head(page).tag = tag THEN Candidate(tag, Head(page), base) ELSE <<>>)
         \o Strategy(tag, Tail(page), base)

\* media_elements after the four strategies
Extract(page, base) ==
    Strategy("img", page, base) \o Strategy("video", page, base)
    \o Strategy("div", page, base) \o Strategy("script", page, base)

(***************************************************************************)
(* DownloadThread.run: de-duplication                                      *)
(***************************************************************************)
\* a dict write that would keep the value already stored under the key
DictSetKeepFirst(d, key, val) ==
    IF \E k \in 1..Len(d) : d[k][1] = key THEN d ELSE Append(d, <<key, val>>)

\* d[key] = val on a dict kept as the sequence of its (key, value) pairs in
\* insertion order: an existing key keeps its place and gets the new value
DictSet(d, key, val) ==
    IF \E k \in 1..Len(d) : d[k][1] = key
    THEN [k \in 1..Len(d) |-> IF d[k][1] = key THEN <<key, val>> ELSE d[k]]
    ELSE Append(d, <<key, val>>)

RECURSIVE UniqueMedia(_, _)
UniqueMedia(d, cands) ==
    IF cands = <<>> THEN d
    ELSE LET clean_url == CleanUrl(Head(cands)[2])
         IN  UniqueMedia(DictSet(d, clean_url, <<Head(cands)[1], clean_url>>),
                         Tail(cands))

\* media_list = list(unique_media.values())
Dedupe(cands) ==
    LET d == UniqueMedia(<<>>, cands) IN [k \in 1..Len(d) |-> d[k][2]]

(***************************************************************************)
(* DownloadThread.run: filename derivation and collision probe             *)
(***************************************************************************)
\* a derivation that would leave the URL's own extension alone
DeriveFilenameKeepExt(media_type, media_url, i) ==
    LET filename == Basename(UrlPath(media_url))
    IN  IF filename = <<>> \/ ~Contains(filename, <<".">>)
        THEN KindStr(media_type) \o <<"_">> \o Str(i + 1)
             \o (IF media_type = "video" THEN MP4 ELSE JPG)
        ELSE filename

\* the filename of item i (0-based) of media_list
DeriveFilename(media_type, media_url, i) ==
    LET filename == Basename(UrlPath(media_url))
        root == SplitExt(filename)[1]
        current_ext == LowerStr(SplitExt(filename)[2])
    IN  IF filename = <<>> \/ ~Contains(filename, <<".">>)
        THEN KindStr(media_type) \o <<"_">> \o Str(i + 1)
             \o (IF media_type = "video" THEN MP4 ELSE JPG)
        ELSE IF media_type = "video" /\ current_ext \notin VideoExts
        THEN root \o MP4
        ELSE IF media_type = "image" /\ current_ext \notin ImageExts
        THEN root \o JPG
        ELSE filename

\* the while loop: filepath is probed, then name_counter.ext, counter rising.
\* Paths are names inside save_folder, which never changes.
RECURSIVE ProbePath(_, _, _, _)
ProbePath(filename, filepath, counter, folder) ==
    IF filepath \in folder
    THEN ProbePath(filename,
                   SplitExt(filename)[1] \o <<"_">> \o Str(counter)
                       \o SplitExt(filename)[2],
                   counter + 1, folder)
    ELSE filepath

\* a target chosen without the while loop
TargetPathNoProbe(filename, folder) == filename

\* the path open(filepath, 'wb') is called with
TargetPath(filename, folder) == ProbePath(filename, filename, 1, folder)

(***************************************************************************)
(* State                                                                   *)
(***************************************************************************)
VARIABLES
    download_btn,     \* download_btn.isEnabled()
    dialog,           \* title of the modal QMessageBox being shown, or "none"
    started,          \* DownloadThread objects started so far
    running,          \* threads whose run() has been started and has not returned
    finishedPending,  \* finished signals emitted and not yet delivered to the GUI
    pc,               \* position of download_thread: "idle", "start", "loop", "done"
    url,              \* download_thread.url
    fetch,            \* page request: "pending", "raised" or "responded"
    status_code,      \* response.status_code (0 before there is a response)
    media_elements,   \* candidates of the four strategies, in extraction order
    media_list,       \* the de-duplicated (kind, url) list
    i,                \* loop index into media_list (0-based)
    log,              \* lines emitted on log_signal by download_thread
    files,            \* names of the files in save_folder
    attempts,         \* (url, derived filename) of each run of the loop body, in order
    written           \* files opened for writing by download_thread, in order,
                      \* each with the folder's contents at that moment

vars == <<download_btn, dialog, started, running, finishedPending, pc, url, fetch,
          status_code, media_elements, media_list, i, log, files, attempts, written>>

gui == <<download_btn, dialog, started>>
pipeline == <<url, fetch, status_code, media_elements, media_list, i, attempts, written>>

\* the derived filename used in the collision scenarios
Photo == <<"a">> \o JPG

\* name.ext, name_1.ext, name_2.ext, ...
Probe(filename, k) ==
    IF k = 0 THEN filename
    ELSE SplitExt(filename)[1] \o <<"_">> \o Str(k) \o SplitExt(filename)[2]

\* files left in the save folder by earlier sessions
PreExisting == {Probe(Photo, k) : k \in 0..(MaxPre - 1)}

Init ==
    /\ download_btn = TRUE
    /\ dialog = "none"
    /\ started = 0
    /\ running = 0
    /\ finishedPending = 0
    /\ pc = "idle"
    /\ url = <<>>
    /\ fetch = "pending"
    /\ status_code = 0
    /\ media_elements = <<>>
    /\ media_list = <<>>
    /\ i = 0
    /\ log = <<>>
    /\ files \in SUBSET PreExisting
    /\ attempts = <<>>
    /\ written = <<>>

(***************************************************************************)
(* PinterestDownloaderGUI                                                  *)
(***************************************************************************)
\* a start_download that would leave the button enabled
BtnStaysEnabled == TRUE

\* download_btn.setEnabled(False) in start_download
BtnWhileRunning == FALSE

\* start_download: the DOWNLOAD button is clicked.  A disabled button emits
\* no clicked signal, and a modal message box blocks input to the window.
StartDownload ==
    /\ download_btn
    /\ dialog = "none"
    /\ \E text \in UrlInputs :
         LET u == Strip(text) IN
         IF u = <<>> \/ ~is_valid_pinterest_url(u)
         THEN /\ dialog' = "Error"
              /\ UNCHANGED <<download_btn, started, running, finishedPending, pc,
                             log, files>>
              /\ UNCHANGED pipeline
         ELSE /\ started < MaxStarts
              /\ download_btn' = BtnWhileRunning
              /\ started' = started + 1
              /\ running' = running + 1
              /\ pc' = "start"
              /\ url' = u
              /\ fetch' = "pending"
              /\ status_code' = 0
              /\ media_elements' = <<>>
              /\ media_list' = <<>>
              /\ i' = 0
              /\ log' = <<>>
              /\ attempts' = <<>>
              /\ written' = <<>>
              /\ UNCHANGED <<dialog, finishedPending, files>>

\* on_download_finished: the slot of the thread's finished signal
OnDownloadFinished ==
    /\ finishedPending > 0
    /\ finishedPending' = finishedPending - 1
    /\ download_btn' = TRUE
    /\ dialog' = "Success"
    /\ UNCHANGED <<started, running, pc, log, files>>
    /\ UNCHANGED pipeline

\* show_message: msg.exec() returns when the user closes the box
CloseMessage ==
    /\ dialog # "none"
    /\ dialog' = "none"
    /\ UNCHANGED <<download_btn, started, running, finishedPending, pc, log, files>>
    /\ UNCHANGED pipeline

(***************************************************************************)
(* DownloadThread.run                                                      *)
(***************************************************************************)
Line(t) == [t |-> t]

\* run() returns: QThread emits finished
Return ==
    /\ pc' = "done"
    /\ running' = running - 1
    /\ finishedPending' = finishedPending + 1

\* a fetch that would accept every status
FetchOkAnyStatus(code) == TRUE

\* response.status_code != 200 is the failure test
FetchOk(code) == code = 200

\* a run that would never take the 'No media found' return
NoMediaNever(list) == FALSE

\* if not media_list
NoMedia(list) == list = <<>>

CountKind(list, kind) == Cardinality({k \in 1..Len(list) : list[k][1] = kind})

\* run() up to the download loop: the page request, the four strategies, the
\* de-duplication and the 'Found ...' line.  requests.get either raises (the
\* outer except reports it) or returns a response with a status and a page.
RunFetch ==
    /\ pc = "start"
    /\ \/ /\ fetch' = "raised"
          /\ log' = log \o <<Line("access"), Line("critical")>>
          /\ Return
          /\ UNCHANGED <<status_code, media_elements, media_list, i>>
       \/ \E code \in StatusCodes, page \in Pages :
            /\ fetch' = "responded"
            /\ status_code' = code
            /\ IF ~FetchOk(code)
               THEN /\ log' = log \o <<Line("access"), Line("fetch_failed")>>
                    /\ Return
                    /\ UNCHANGED <<media_elements, media_list, i>>
               ELSE LET elems == Extract(page, url)
                        list == Dedupe(elems)
                    IN  /\ media_elements' = elems
                        /\ media_list' = list
                        /\ i' = 0
                        /\ IF NoMedia(list)
                           THEN /\ log' = log \o <<Line("access"), Line("no_media")>>
                                /\ Return
                           ELSE /\ log' = log \o
                                     <<Line("access"),
                                       [t |-> "found", total |-> Len(list),
                                        images |-> CountKind(list, "image"),
                                        videos |-> CountKind(list, "video")]>>
                                /\ pc' = "loop"
                                /\ UNCHANGED <<running, finishedPending>>
    /\ UNCHANGED <<download_btn, dialog, started, url, files, attempts, written>>

\* What can happen to one item's download:
\*   "ok"    the body is streamed to the file;
\*   "net"   requests.get raises (no connection, or no scheme in the URL);
\*   "http"  raise_for_status raises;
\*   "disk"  open(filepath, 'wb') raises.
\* Each failure is raised inside the try of the loop body before any file
\* exists.  (An exception after open() has created the file, which leaves a
\* truncated file behind, is outside the model.)
Outcomes(media_url) ==
    IF IsAbsolute(media_url) THEN {"ok", "net", "http", "disk"} ELSE {"net"}

\* a failure that would end the loop instead of the iteration
AfterFailureStop(idx, total) == total

\* the except clause of the loop body ends the iteration: enumerate goes on
AfterFailure(idx, total) == idx + 1

\* one iteration of the download loop
RunDownloadItem ==
    /\ pc = "loop"
    /\ i < Len(media_list)
    /\ LET media_type == media_list[i + 1][1]
           media_url == media_list[i + 1][2]
           total_media == Len(media_list)
           filename == DeriveFilename(media_type, media_url, i)
           filepath == TargetPath(filename, files)
           opened == [idx |-> i + 1, name |-> filename, path |-> filepath,
                      before |-> files]
       IN  \E outcome \in Outcomes(media_url) :
             /\ attempts' = Append(attempts, [url |-> media_url, name |-> filename])
             /\ IF outcome = "ok"
                THEN /\ files' = files \cup {filepath}
                     /\ written' = Append(written, opened)
                     /\ log' = Append(log, [t |-> "downloaded", kind |-> media_type,
                                            name |-> filename, idx |-> i + 1,
                                            total |-> total_media])
                     /\ i' = i + 1
                ELSE /\ UNCHANGED <<files, written>>
                     /\ log' = Append(log, [t |-> "failed", url |-> media_url])
                     /\ i' = AfterFailure(i, total_media)
    /\ UNCHANGED <<download_btn, dialog, started, running, finishedPending, pc, url,
                   fetch, status_code, media_elements, media_list>>

\* after the loop: 'All downloads completed!', and run() returns
RunComplete ==
    /\ pc = "loop"
    /\ i >= Len(media_list)
    /\ log' = Append(log, Line("all_completed"))
    /\ Return
    /\ UNCHANGED <<download_btn, dialog, started, files>>
    /\ UNCHANGED pipeline

Next ==
    \/ StartDownload
    \/ OnDownloadFinished
    \/ CloseMessage
    \/ RunFetch
    \/ RunDownloadItem
    \/ RunComplete

Spec == Init /\ [][Next]_vars

TypeOK ==
    /\ download_btn \in BOOLEAN
    /\ dialog \in {"none", "Error", "Success"}
    /\ started \in 0..MaxStarts
    /\ running \in Nat
    /\ finishedPending \in Nat
    /\ pc \in {"idle", "start", "loop", "done"}
    /\ i \in 0..Len(media_list)

(***************************************************************************)
(* Properties                                                              *)
(***************************************************************************)
LinesOf(types) == SelectSeq(log, LAMBDA l : l.t \in types)

OutcomeLines == LinesOf({"downloaded", "failed"})

FetchFailed == fetch = "raised" \/ (fetch = "responded" /\ status_code # 200)

\* C1: every item of a non-empty media list is attempted exactly once, in
\* list order, whatever happened to the items before it; each attempt emits
\* exactly one outcome line (success or failure) about that item; and when
\* the run is over exactly one 'All downloads completed' line has been
\* emitted, as the last line, even if every item failed.
C1_EveryItemAttemptedOnce ==
    (pc \in {"loop", "done"} /\ Len(media_list) >= 1) =>
        LET n == IF pc = "done" THEN Len(media_list) ELSE i IN
        /\ n <= Len(media_list)
        /\ Len(attempts) = n
        /\ \A k \in 1..n : attempts[k].url = media_list[k][2]
        /\ Len(OutcomeLines) = n
        /\ \A k \in 1..n :
             \/ OutcomeLines[k].t = "downloaded" /\ OutcomeLines[k].idx = k
             \/ OutcomeLines[k].t = "failed" /\ OutcomeLines[k].url = media_list[k][2]
        /\ Len(LinesOf({"all_completed"})) = (IF pc = "done" THEN 1 ELSE 0)
        /\ pc = "done" => log[Len(log)].t = "all_completed"

\* a failed first item is followed by a successful second one, and the run ends
C1_Witness ==
    /\ pc = "done"
    /\ Len(media_list) = 2
    /\ Len(OutcomeLines) = 2
    /\ OutcomeLines[1].t = "failed"
    /\ OutcomeLines[2].t = "downloaded"
    /\ log[Len(log)].t = "all_completed"

\* c is u truncated at its first '?'
IsCanonicalOf(c, u) ==
    /\ Len(c) <= Len(u)
    /\ \A k \in 1..Len(c) : c[k] = u[k] /\ c[k] # "?"
    /\ Len(c) < Len(u) => u[Len(c) + 1] = "?"

\* C2: the de-duplicated list holds exactly one item per canonical URL of
\* the candidates, and the item's kind is the kind of the last candidate, in
\* extraction order, that has this canonical URL.
C2_OneItemPerCanonicalUrl ==
    /\ \A j, k \in 1..Len(media_list) :
         media_list[j][2] = media_list[k][2] => j = k
    /\ \A j \in 1..Len(media_elements) : \E k \in 1..Len(media_list) :
         IsCanonicalOf(media_list[k][2], media_elements[j][2])
    /\ \A k \in 1..Len(media_list) :
         LET same == {j \in 1..Len(media_elements) :
                        IsCanonicalOf(media_list[k][2], media_elements[j][2])}
         IN  /\ same # {}
             /\ \A j \in same :
                  (\A m \in same : m <= j) => media_list[k][1] = media_elements[j][1]

\* an image-tag candidate and a later video-container candidate share a
\* canonical URL; the one surviving item is a video
C2_Witness ==
    /\ Len(media_elements) = 2
    /\ media_elements[1][1] = "image"
    /\ media_elements[2][1] = "video"
    /\ media_elements[1][2] # media_elements[2][2]
    /\ Len(media_list) = 1
    /\ media_list[1][1] = "video"

\* C3: a download is written to the first path of name.ext, name_1.ext,
\* name_2.ext, ... that does not exist when the item is reached (files of
\* earlier runs and of earlier items included): it is name_k.ext for the k
\* with every earlier path of the sequence present; so with name.ext ..
\* name_{N-1}.ext present and name_N.ext absent it is name_N.ext.  No
\* existing file is opened for writing.
C3_FirstFreePath ==
    \A n \in 1..Len(written) :
        LET w == written[n] IN
        /\ w.path \notin w.before
        /\ \E k \in 0..Cardinality(w.before) :
             /\ w.path = Probe(w.name, k)
             /\ \A j \in 0..(k - 1) : Probe(w.name, j) \in w.before

\* a.jpg and a_1.jpg exist, the download of a.jpg is written to a_2.jpg
C3_Witness ==
    \E n \in 1..Len(written) :
        /\ written[n].name = Photo
        /\ {Photo, Probe(Photo, 1)} \subseteq written[n].before
        /\ written[n].path = Probe(Photo, 2)

\* C4: when the page fetch fails (a status other than 200, or requests.get
\* raising) the run emits exactly one failure line, extracts nothing,
\* attempts no download, emits no 'All downloads completed' line, and the
\* finished signal is emitted (it is pending, or its slot has already run and
\* re-enabled the button).
C4_FetchFailureHalts ==
    (pc = "done" /\ FetchFailed) =>
        /\ Len(LinesOf({"fetch_failed", "critical", "failed", "no_media"})) = 1
        /\ Len(LinesOf({"fetch_failed", "critical"})) = 1
        /\ media_elements = <<>>
        /\ media_list = <<>>
        /\ attempts = <<>>
        /\ written = <<>>
        /\ LinesOf({"found", "downloaded", "all_completed"}) = <<>>
        /\ running = 0
        /\ finishedPending = 1 \/ download_btn

\* the page answered 404: the run is over and its finished signal is pending
C4_Witness ==
    /\ pc = "done"
    /\ fetch = "responded"
    /\ status_code = 404
    /\ Len(LinesOf({"fetch_failed"})) = 1
    /\ finishedPending = 1

\* C5: a page fetched with status 200 whose strategies yield no candidate:
\* the run emits the 'No media found' line, requests no media, writes no file
\* and emits neither 'Found ... media items' nor 'All downloads completed'.
C5_NoMediaNoDownloads ==
    (pc = "done" /\ fetch = "responded" /\ status_code = 200
     /\ media_elements = <<>>) =>
        /\ Len(LinesOf({"no_media"})) = 1
        /\ attempts = <<>>
        /\ written = <<>>
        /\ LinesOf({"found", "downloaded", "failed", "all_completed"}) = <<>>

C5_Witness ==
    /\ pc = "done"
    /\ fetch = "responded"
    /\ status_code = 200
    /\ media_elements = <<>>
    /\ log[Len(log)].t = "no_media"

\* C6: the modal success notice is shown only for a run that went through
\* the download loop and emitted 'All downloads completed'; a run halted by a
\* fetch failure, by 'No media found' or by a critical error shows none.
C6_SuccessNoticeOnlyAfterLoop ==
    dialog = "Success" => LinesOf({"all_completed"}) # <<>>

\* C7: at most one DownloadThread is running at any time: the button is
\* disabled while a run is active and enabled only when none is, so no second
\* run starts, and one loop at most requests media and writes to the folder.
C7_AtMostOneThread ==
    /\ running <= 1
    /\ running = 1 => ~download_btn
    /\ pc \in {"start", "loop"} => running = 1
    /\ download_btn => pc \in {"idle", "done"}

\* the second thread of the session is in its download loop, alone
C7_Witness ==
    /\ started = 2
    /\ running = 1
    /\ pc = "loop"
    /\ ~download_btn

EndsWith(s, e) ==
    Len(e) <= Len(s) /\ SubSeq(s, Len(s) - Len(e) + 1, Len(s)) = e

Accepted(kind) == IF kind = "video" THEN VideoExts ELSE ImageExts
DefaultExt(kind) == IF kind = "video" THEN MP4 ELSE JPG

\* C8: the filename derived for item k always ends in an extension accepted
\* for the item's kind, compared case-insensitively: '{kind}_{k}' plus .mp4
\* or .jpg when the last segment of the URL path is empty or has no '.';
\* otherwise the segment with an extension outside the kind's set replaced
\* by the kind's default, and the segment itself when its extension is in
\* the set.
C8_FilenameExtensionFitsKind ==
    \A k \in 1..Len(attempts) :
        LET kind == media_list[k][1]
            seg == Basename(UrlPath(attempts[k].url))
            name == attempts[k].name
        IN  /\ \E e \in Accepted(kind) : EndsWith(LowerStr(name), e)
            /\ IF seg = <<>> \/ \A j \in 1..Len(seg) : seg[j] # "."
               THEN name = KindStr(kind) \o <<"_">> \o Str(k) \o DefaultExt(kind)
               ELSE IF LowerStr(SplitExt(seg)[2]) \in Accepted(kind)
               THEN name = seg
               ELSE name = SplitExt(seg)[1] \o DefaultExt(kind)

\* a video whose URL ends in a.jpg gets the name a.mp4
C8_Witness ==
    \E k \in 1..Len(attempts) :
        /\ media_list[k][1] = "video"
        /\ Basename(UrlPath(attempts[k].url)) = Photo
        /\ attempts[k].name = <<"a">> \o MP4

\* C9: every candidate of the four strategies carries an absolute URL.
C9_CandidatesAbsolute ==
    \A k \in 1..Len(media_elements) : IsAbsolute(media_elements[k][2])

\* C10: the filename in a success line is the name of the file the download
\* was written to, also when the probe chose a suffixed path.
C10_LoggedNameIsWrittenFile ==
    \A k \in 1..Len(log) :
        log[k].t = "downloaded" =>
            \E n \in 1..Len(written) :
                written[n].idx = log[k].idx /\ written[n].path = log[k].name

====
